---- MODULE Spec2Model ----
(***************************************************************************)
(* Journalbeat (beater/journalbeat.go): the ingestion loop (Run), the      *)
(* buffering goroutine (logProcessor, flushOrBufferLogs,                   *)
(* flushStaleLogMessages) and the cursor writer (writeCursorLoop), with    *)
(* the channels that connect them.                                         *)
(*                                                                         *)
(* Strings are sequences of one-character strings, so that the code's      *)
(* concatenation and its test of the first byte are computed, not assumed. *)
(* A journal cursor is the ordinal of the record in the journal (1, 2, ..);*)
(* the empty cursor string "" is 0.                                        *)
(***************************************************************************)
EXTENDS Integers, Sequences, FiniteSets, TLC

\* Number of records the journal delivers in one run.
MaxRecords == 3

\* Capacity of incomingLogMessages (1000 in the source, scaled down so that
\* a full queue is reached within MaxRecords records).
channelSize == 2

\* jb.config.FlushLogInterval and jb.config.CursorFlushPeriod, in clock steps.
FlushLogInterval == 1
CursorFlushPeriod == 1

\* How often the publisher refuses an event, and how often a write of the
\* cursor state file fails, in one run.
MaxRejects == 1
MaxWriteErrors == 1

containerIdField == "CONTAINER_ID"
processField == "_PID"
messageField == "MESSAGE"

NL == "\n"
SP == " "
TAB == "\t"
EmptyCursor == 0

RawRecord(idField, id, m) == (idField :> id) @@ (messageField :> m)

\* The field maps of the records the journal delivers: records of container
\* X ("A", " B"), records of host process Y ("A", "\tC"), and a record with
\* an empty message that carries neither identity field.
RawRecords ==
    { RawRecord(containerIdField, "X", <<"A">>),
      RawRecord(containerIdField, "X", <<SP, "B">>),
      RawRecord(processField, "Y", <<"A">>),
      RawRecord(processField, "Y", <<TAB, "C">>),
      (messageField :> <<>>) }

\* Go's map index: the zero value "" for a missing key.
Field(fields, name) == IF name \in DOMAIN fields THEN fields[name] ELSE ""

VARIABLES
    done,                 \* jb.done is closed
    runPc,                \* Run: "follow" | "push" | "returned"
    runEvent,             \* the event Run is sending on incomingLogMessages
    journalRead,          \* the records read so far (the record with cursor i at index i)
    incomingLogMessages,  \* the buffered channel, as a FIFO
    journalTypeOutstandingLogBuffer,  \* the map logType -> LogBuffer
    procPc,               \* logProcessor: "select" | "range" | "send" | "panic"
    rangeLeft,            \* keys the running range loop has still to visit
    sendCursor,           \* the value of the pending send on cursorChan
    flushTick,            \* tickChan.C holds a tick (capacity 1)
    flushPhase,           \* time since the flush ticker last fired
    cursorTick,           \* the writer's tick channel holds a tick
    cursorPhase,          \* time since the cursor ticker last fired
    WriteCursorState,     \* jb.config.WriteCursorState
    writerPc,             \* writeCursorLoop: "off" | "recv" | "select" | "done"
    cursor,               \* writeCursorLoop's local cursor
    cursorChanClosed,     \* close(jb.cursorChan) has run
    clientClosed,         \* jb.client.Close() has run
    published,            \* the events handed to jb.client.PublishEvent, in order
    received,             \* the values received from cursorChan, in order
    saved                 \* the ioutil.WriteFile calls on the cursor state file, in order

vars == << done, runPc, runEvent, journalRead, incomingLogMessages,
           journalTypeOutstandingLogBuffer, procPc, rangeLeft, sendCursor,
           flushTick, flushPhase, cursorTick, cursorPhase, WriteCursorState,
           writerPc, cursor, cursorChanClosed, clientClosed, published,
           received, saved >>

NoEvent == [none |-> TRUE]

Last(s) == s[Len(s)]

(***************************************************************************)
(* Run, lines 321-346: one raw record becomes one event.  The field        *)
(* "records" is bookkeeping of the model only: the cursors of the journal  *)
(* records whose messages the event's message is made of.                  *)
(***************************************************************************)
MapStrFromJournalEntry(fields) == [message |-> Field(fields, messageField)]

LogBufferingType(fields) ==
    IF containerIdField \in DOMAIN fields
    THEN fields[containerIdField]
    ELSE Field(fields, processField)

Normalize(fields, rawCursor) ==
    [ message          |-> MapStrFromJournalEntry(fields).message,
      logBufferingType |-> LogBufferingType(fields),
      cursor           |-> rawCursor,
      records          |-> << rawCursor >> ]

StreamKeys == { LogBufferingType(f) : f \in RawRecords }

(***************************************************************************)
(* jb.client.PublishEvent(event, publisher.Guaranteed): the call returns a *)
(* bool that says whether the publisher took the event.  A closed client   *)
(* takes nothing.                                                          *)
(***************************************************************************)
Count(seq, Test(_)) == Cardinality({ i \in 1..Len(seq) : Test(seq[i]) })

IsRejected(p) == ~p.accepted /\ ~p.closed

SinkAnswers ==
    IF Count(published, IsRejected) < MaxRejects THEN BOOLEAN ELSE {TRUE}

PublishEvent(event, accepted) ==
    Append(published, [ event    |-> event,
                        accepted |-> accepted /\ ~clientClosed,
                        closed   |-> clientClosed ])

(***************************************************************************)
(* flushOrBufferLogs, lines 199-234.  The metrics of lines 228-231 are     *)
(* left out: they read the event and write no state of the pipeline.       *)
(***************************************************************************)
\* The test for a tab is missing.
IsContinuation_spaceOnly(newLogMessage) ==
    /\ newLogMessage # <<>>
    /\ newLogMessage[1] = SP

IsContinuation(newLogMessage) ==
    /\ newLogMessage # <<>>
    /\ (newLogMessage[1] = SP \/ newLogMessage[1] = TAB)

MergeMessage_noNewline(oldMessage, newLogMessage) == oldMessage \o newLogMessage

MergeMessage(oldMessage, newLogMessage) == oldMessage \o <<NL>> \o newLogMessage

\* age is time.Now().Sub(logBuffer.time), cut off at FlushLogInterval: the
\* code reads the field only to compare that difference with the interval.
NewLogBuffer(event) ==
    [ age |-> 0, logType |-> event.logBufferingType, logEvent |-> event ]

BufferKey_shared(event) == "X"

BufferKey(event) == event.logBufferingType

\* The merged entry takes the cursor of the record merged last.
AppendToBuffer_lastCursor(oldLog, event) ==
    [ oldLog EXCEPT !.logEvent.message = MergeMessage(@, event.message),
                    !.logEvent.records = @ \o event.records,
                    !.logEvent.cursor = event.cursor,
                    !.age = 0 ]

AppendToBuffer(oldLog, event) ==
    [ oldLog EXCEPT !.logEvent.message = MergeMessage(@, event.message),
                    !.logEvent.records = @ \o event.records,
                    !.age = 0 ]

\* Storing under a key that is in the map removes the key.
SetBuffer_dropsExisting(buf, logType, logBuffer) ==
    IF logType \in DOMAIN buf
    THEN [ k \in DOMAIN buf \ {logType} |-> buf[k] ]
    ELSE [ k \in DOMAIN buf \cup {logType} |->
             IF k = logType THEN logBuffer ELSE buf[k] ]

SetBuffer(buf, logType, logBuffer) ==
    [ k \in DOMAIN buf \cup {logType} |->
        IF k = logType THEN logBuffer ELSE buf[k] ]

DeleteBuffer_keep(buf, logType) == buf

DeleteBuffer(buf, logType) == [ k \in DOMAIN buf \ {logType} |-> buf[k] ]

\* The new event is published in place of the one it supersedes.
flushOrBufferLogs_publishNew(event, accepted) ==
    LET buf     == journalTypeOutstandingLogBuffer
        logType == BufferKey(event)
        found   == logType \in DOMAIN buf
    IN  IF IsContinuation(event.message)
        THEN /\ journalTypeOutstandingLogBuffer' =
                    IF found
                    THEN SetBuffer(buf, logType, AppendToBuffer(buf[logType], event))
                    ELSE SetBuffer(buf, logType, NewLogBuffer(event))
             /\ UNCHANGED published
        ELSE /\ journalTypeOutstandingLogBuffer' =
                    IF found
                    THEN buf
                    ELSE SetBuffer(buf, logType, NewLogBuffer(event))
             /\ published' =
                    IF found
                    THEN PublishEvent(event, accepted)
                    ELSE published

flushOrBufferLogs(event, accepted) ==
    LET buf     == journalTypeOutstandingLogBuffer
        logType == BufferKey(event)
        found   == logType \in DOMAIN buf
    IN  IF IsContinuation(event.message)
        THEN /\ journalTypeOutstandingLogBuffer' =
                    IF found
                    THEN SetBuffer(buf, logType, AppendToBuffer(buf[logType], event))
                    ELSE SetBuffer(buf, logType, NewLogBuffer(event))
             /\ UNCHANGED published
        ELSE /\ journalTypeOutstandingLogBuffer' =
                    SetBuffer(buf, logType, NewLogBuffer(event))
             /\ published' =
                    IF found
                    THEN PublishEvent(buf[logType].logEvent, accepted)
                    ELSE published

(***************************************************************************)
(* Run, lines 305-309 and 321-362, and Stop, lines 367-370.                *)
(***************************************************************************)
Alive == procPc # "panic"

\* Lines 321-361: read one record and send its event on incomingLogMessages.
\* The send completes at once when the channel has room; otherwise Run is
\* held in the send ("push") until logProcessor has taken an event.
RunFollow ==
    /\ Alive /\ runPc = "follow" /\ ~done
    /\ Len(journalRead) < MaxRecords
    /\ \E fields \in RawRecords :
          LET event == Normalize(fields, Len(journalRead) + 1)
          IN  /\ journalRead' = Append(journalRead, fields)
              /\ IF Len(incomingLogMessages) < channelSize
                 THEN /\ incomingLogMessages' = Append(incomingLogMessages, event)
                      /\ UNCHANGED << runEvent, runPc >>
                 ELSE /\ runEvent' = event
                      /\ runPc' = "push"
                      /\ UNCHANGED incomingLogMessages
    /\ UNCHANGED << done, journalTypeOutstandingLogBuffer,
                    procPc, rangeLeft, sendCursor, flushTick, flushPhase,
                    cursorTick, cursorPhase, WriteCursorState, writerPc, cursor,
                    cursorChanClosed, clientClosed, published, received, saved >>

\* A full channel makes room by dropping its oldest event.
RunPush_overwrite ==
    /\ Alive /\ runPc = "push"
    /\ incomingLogMessages' =
          IF Len(incomingLogMessages) < channelSize
          THEN Append(incomingLogMessages, runEvent)
          ELSE Append(Tail(incomingLogMessages), runEvent)
    /\ runEvent' = NoEvent
    /\ runPc' = "follow"
    /\ UNCHANGED << done, journalRead, journalTypeOutstandingLogBuffer,
                    procPc, rangeLeft, sendCursor, flushTick, flushPhase,
                    cursorTick, cursorPhase, WriteCursorState, writerPc, cursor,
                    cursorChanClosed, clientClosed, published, received, saved >>

RunPush ==
    /\ Alive /\ runPc = "push"
    /\ Len(incomingLogMessages) < channelSize
    /\ incomingLogMessages' = Append(incomingLogMessages, runEvent)
    /\ runEvent' = NoEvent
    /\ runPc' = "follow"
    /\ UNCHANGED << done, journalRead, journalTypeOutstandingLogBuffer,
                    procPc, rangeLeft, sendCursor, flushTick, flushPhase,
                    cursorTick, cursorPhase, WriteCursorState, writerPc, cursor,
                    cursorChanClosed, clientClosed, published, received, saved >>

Stop ==
    /\ Alive /\ ~done
    /\ done' = TRUE
    /\ UNCHANGED << runPc, runEvent, journalRead, incomingLogMessages,
                    journalTypeOutstandingLogBuffer, procPc, rangeLeft,
                    sendCursor, flushTick, flushPhase, cursorTick, cursorPhase,
                    WriteCursorState, writerPc, cursor, cursorChanClosed,
                    clientClosed, published, received, saved >>

\* The journal stream ends once done is closed; Run's deferred block runs.
RunReturn ==
    /\ Alive /\ runPc = "follow" /\ done
    /\ runPc' = "returned"
    /\ cursorChanClosed' = TRUE
    /\ clientClosed' = TRUE
    /\ UNCHANGED << done, runEvent, journalRead, incomingLogMessages,
                    journalTypeOutstandingLogBuffer, procPc, rangeLeft,
                    sendCursor, flushTick, flushPhase, cursorTick, cursorPhase,
                    WriteCursorState, writerPc, cursor, published, received,
                    saved >>

(***************************************************************************)
(* logProcessor, lines 237-251, with flushStaleLogMessages, lines 188-197. *)
(* The range loop stops at each send on the unbuffered cursorChan, so it   *)
(* is one step per visited key and one step per send.                      *)
(***************************************************************************)
AfterVisit(left) == IF left = {} THEN "select" ELSE "range"

IsStale(logBuffer) == logBuffer.age >= FlushLogInterval

Ingest ==
    /\ procPc = "select"
    /\ incomingLogMessages # <<>>
    /\ \E accepted \in SinkAnswers :
          flushOrBufferLogs(Head(incomingLogMessages), accepted)
    /\ incomingLogMessages' = Tail(incomingLogMessages)
    /\ UNCHANGED << done, runPc, runEvent, journalRead, procPc, rangeLeft,
                    sendCursor, flushTick, flushPhase, cursorTick, cursorPhase,
                    WriteCursorState, writerPc, cursor, cursorChanClosed,
                    clientClosed, received, saved >>

FlushTick ==
    /\ procPc = "select"
    /\ flushTick
    /\ flushTick' = FALSE
    /\ rangeLeft' = DOMAIN journalTypeOutstandingLogBuffer
    /\ procPc' = AfterVisit(rangeLeft')
    /\ UNCHANGED << done, runPc, runEvent, journalRead, incomingLogMessages,
                    journalTypeOutstandingLogBuffer, sendCursor, flushPhase,
                    cursorTick, cursorPhase, WriteCursorState, writerPc, cursor,
                    cursorChanClosed, clientClosed, published, received, saved >>

flushStaleLogMessages(logType, accepted) ==
    LET logBuffer == journalTypeOutstandingLogBuffer[logType]
    IN  /\ rangeLeft' = rangeLeft \ {logType}
        /\ IF IsStale(logBuffer)
           THEN /\ published' = PublishEvent(logBuffer.logEvent, accepted)
                /\ journalTypeOutstandingLogBuffer' =
                       DeleteBuffer(journalTypeOutstandingLogBuffer, logType)
                /\ sendCursor' = logBuffer.logEvent.cursor
                /\ procPc' = "send"
           ELSE /\ procPc' = AfterVisit(rangeLeft')
                /\ UNCHANGED << published, journalTypeOutstandingLogBuffer,
                                sendCursor >>

RangeVisit ==
    /\ procPc = "range"
    /\ \E logType \in rangeLeft : \E accepted \in SinkAnswers :
          flushStaleLogMessages(logType, accepted)
    /\ UNCHANGED << done, runPc, runEvent, journalRead, incomingLogMessages,
                    flushTick, flushPhase, cursorTick, cursorPhase,
                    WriteCursorState, writerPc, cursor, cursorChanClosed,
                    clientClosed, received, saved >>

\* jb.cursorChan <- cursor meets the receive of "for cursor = range jb.cursorChan".
CursorSend ==
    /\ procPc = "send" /\ ~cursorChanClosed
    /\ writerPc = "recv"
    /\ cursor' = sendCursor
    /\ received' = Append(received, sendCursor)
    /\ sendCursor' = EmptyCursor
    /\ writerPc' = "select"
    /\ procPc' = AfterVisit(rangeLeft)
    /\ UNCHANGED << done, runPc, runEvent, journalRead, incomingLogMessages,
                    journalTypeOutstandingLogBuffer, rangeLeft, flushTick,
                    flushPhase, cursorTick, cursorPhase, WriteCursorState,
                    cursorChanClosed, clientClosed, published, saved >>

\* A send on a closed channel panics, and the panic ends the process.
SendOnClosed ==
    /\ procPc = "send" /\ cursorChanClosed
    /\ procPc' = "panic"
    /\ UNCHANGED << done, runPc, runEvent, journalRead, incomingLogMessages,
                    journalTypeOutstandingLogBuffer, rangeLeft, sendCursor,
                    flushTick, flushPhase, cursorTick, cursorPhase,
                    WriteCursorState, writerPc, cursor, cursorChanClosed,
                    clientClosed, published, received, saved >>

(***************************************************************************)
(* writeCursorLoop, lines 138-162.                                         *)
(***************************************************************************)
HasErr(w) == w.err

WriteErrors ==
    IF Count(saved, HasErr) < MaxWriteErrors THEN BOOLEAN ELSE {FALSE}

LastPublished ==
    IF published = <<>> THEN EmptyCursor ELSE Last(published).event.cursor

\* After a failed write the next write repeats the cursor that failed.
saveCursorState_retryFailed(c, failed) ==
    IF c # EmptyCursor
    THEN saved' = Append(saved,
                    [ cursor |-> IF saved # <<>> /\ Last(saved).err
                                 THEN Last(saved).cursor ELSE c,
                      err |-> failed,
                      lastPublished |-> LastPublished ])
    ELSE UNCHANGED saved

\* lastPublished is bookkeeping of the model only: the cursor of the event
\* published last at the moment of the write.
saveCursorState(c, failed) ==
    IF c # EmptyCursor
    THEN saved' = Append(saved, [ cursor |-> c, err |-> failed,
                                  lastPublished |-> LastPublished ])
    ELSE UNCHANGED saved

WriterSelect ==
    /\ Alive /\ writerPc = "select"
    /\ IF cursorTick
       THEN \E failed \in WriteErrors : saveCursorState(cursor, failed)
       ELSE UNCHANGED saved
    /\ cursorTick' = FALSE
    /\ writerPc' = "recv"
    /\ UNCHANGED << done, runPc, runEvent, journalRead, incomingLogMessages,
                    journalTypeOutstandingLogBuffer, procPc, rangeLeft,
                    sendCursor, flushTick, flushPhase, cursorPhase,
                    WriteCursorState, cursor, cursorChanClosed, clientClosed,
                    published, received >>

WriterExit ==
    /\ Alive /\ writerPc = "recv" /\ cursorChanClosed
    /\ \E failed \in WriteErrors : saveCursorState(cursor, failed)
    /\ writerPc' = "done"
    /\ UNCHANGED << done, runPc, runEvent, journalRead, incomingLogMessages,
                    journalTypeOutstandingLogBuffer, procPc, rangeLeft,
                    sendCursor, flushTick, flushPhase, cursorTick, cursorPhase,
                    WriteCursorState, cursor, cursorChanClosed, clientClosed,
                    published, received >>

(***************************************************************************)
(* Time: one step of the clock ages every buffered entry and drives the    *)
(* two tickers (time.NewTicker, line 239; time.Tick, line 153).  A ticker  *)
(* channel holds one tick; a tick that finds it full is dropped.           *)
(***************************************************************************)
Older(logBuffer) ==
    [ logBuffer EXCEPT !.age = IF @ < FlushLogInterval THEN @ + 1 ELSE @ ]

Clock ==
    /\ Alive
    /\ journalTypeOutstandingLogBuffer' =
          [ k \in DOMAIN journalTypeOutstandingLogBuffer |->
              Older(journalTypeOutstandingLogBuffer[k]) ]
    /\ flushPhase' = (flushPhase + 1) % FlushLogInterval
    /\ flushTick' = (flushTick \/ flushPhase' = 0)
    /\ IF writerPc \in {"recv", "select"}
       THEN /\ cursorPhase' = (cursorPhase + 1) % CursorFlushPeriod
            /\ cursorTick' = (cursorTick \/ cursorPhase' = 0)
       ELSE UNCHANGED << cursorPhase, cursorTick >>
    /\ UNCHANGED << done, runPc, runEvent, journalRead, incomingLogMessages,
                    procPc, rangeLeft, sendCursor, WriteCursorState, writerPc,
                    cursor, cursorChanClosed, clientClosed, published, received,
                    saved >>

(***************************************************************************)
(* New, lines 172-178, and the start of Run, lines 311-315.                *)
(***************************************************************************)
Init ==
    /\ done = FALSE
    /\ runPc = "follow"
    /\ runEvent = NoEvent
    /\ journalRead = <<>>
    /\ incomingLogMessages = <<>>
    /\ journalTypeOutstandingLogBuffer = <<>>
    /\ procPc = "select"
    /\ rangeLeft = {}
    /\ sendCursor = EmptyCursor
    /\ flushTick = FALSE
    /\ flushPhase = 0
    /\ cursorTick = FALSE
    /\ cursorPhase = 0
    /\ WriteCursorState \in BOOLEAN
    /\ writerPc = IF WriteCursorState THEN "recv" ELSE "off"
    /\ cursor = EmptyCursor
    /\ cursorChanClosed = FALSE
    /\ clientClosed = FALSE
    /\ published = <<>>
    /\ received = <<>>
    /\ saved = <<>>

Next ==
    \/ RunFollow
    \/ RunPush
    \/ Stop
    \/ RunReturn
    \/ Ingest
    \/ FlushTick
    \/ RangeVisit
    \/ CursorSend
    \/ SendOnClosed
    \/ WriterSelect
    \/ WriterExit
    \/ Clock

Spec == Init /\ [][Next]_vars

\* Every goroutine that can take a step takes one in the end, Go's select
\* picks each ready case in the end, and the clock keeps running.  Stop is
\* an outside signal and the journal may stay silent: neither is forced.
Fairness ==
    /\ WF_vars(RunPush)
    /\ WF_vars(RunReturn)
    /\ WF_vars(Ingest)
    /\ WF_vars(FlushTick)
    /\ WF_vars(RangeVisit)
    /\ WF_vars(CursorSend)
    /\ WF_vars(SendOnClosed)
    /\ WF_vars(WriterSelect)
    /\ WF_vars(WriterExit)
    /\ WF_vars(Clock)

FairSpec == Init /\ [][Next]_vars /\ Fairness

(***************************************************************************)
(* Properties.                                                             *)
(***************************************************************************)
Buffered == journalTypeOutstandingLogBuffer

PublishedCursors == [ i \in 1..Len(published) |-> published[i].event.cursor ]

\* The markers handed to cursorChan so far: those received, and the one of
\* a send that is waiting for its receiver.
Forwarded == received \o (IF procPc = "send" THEN << sendCursor >> ELSE <<>>)

\* The number of records logProcessor has taken from incomingLogMessages.
Ingested ==
    Len(journalRead) - Len(incomingLogMessages)
        - (IF runPc = "push" THEN 1 ELSE 0)

RECURSIVE JoinLines(_)
JoinLines(lines) ==
    IF Len(lines) = 1
    THEN lines[1]
    ELSE JoinLines(SubSeq(lines, 1, Len(lines) - 1)) \o <<NL>> \o lines[Len(lines)]

RecordMessages(event) ==
    [ i \in 1..Len(event.records) |-> journalRead[event.records[i]][messageField] ]

\* The step of logProcessor that takes the head of incomingLogMessages.
IngestStep ==
    /\ procPc = "select"
    /\ incomingLogMessages # <<>>
    /\ incomingLogMessages' = Tail(incomingLogMessages)

SavedOk == SelectSeq(saved, LAMBDA w : ~w.err)

\* C1: every publish of a buffered entry, by a superseding event or by the
\* stale pass, hands exactly one cursor to cursorChan, and the cursors are
\* handed over in the order of the publishes.
C1_EveryEmitForwardsMarker == Forwarded = PublishedCursors

\* C2: every record taken from the queue is part of exactly one entry, which
\* is either buffered or published; that entry belongs to the record's stream
\* key and its message is made of the messages of its records; no entry is
\* published twice.
C2_ExactlyOnce ==
    LET events == { published[i].event : i \in 1..Len(published) }
                     \cup { Buffered[k].logEvent : k \in DOMAIN Buffered }
        InPublished(r) ==
            { i \in 1..Len(published) :
                \E j \in 1..Len(published[i].event.records) :
                    published[i].event.records[j] = r }
        InBuffered(r) ==
            { k \in DOMAIN Buffered :
                \E j \in 1..Len(Buffered[k].logEvent.records) :
                    Buffered[k].logEvent.records[j] = r }
    IN  /\ \A r \in 1..Ingested :
              Cardinality(InPublished(r)) + Cardinality(InBuffered(r)) = 1
        /\ \A e \in events :
              /\ \A j \in 1..Len(e.records) :
                    /\ e.records[j] \in 1..Ingested
                    /\ LogBufferingType(journalRead[e.records[j]]) = e.logBufferingType
                    /\ \A h \in 1..Len(e.records) : e.records[h] = e.records[j] => h = j
              /\ e.message = JoinLines(RecordMessages(e))
        /\ \A i, j \in 1..Len(published) :
              published[i].event.cursor = published[j].event.cursor => i = j

\* An entry of two records and an entry of one record have been published,
\* one of them by the stale pass, and a record is still buffered or queued.
C2_Witness ==
    /\ Len(published) = 2
    /\ Len(published[1].event.records) = 2
    /\ received # <<>>
    /\ Len(journalRead) = 3

\* C3: the cursors written to the cursor state file never go back.
C3_PersistedNonDecreasing ==
    \A i, j \in 1..Len(SavedOk) : i < j => SavedOk[i].cursor <= SavedOk[j].cursor

\* C4: every write of the cursor state file writes the cursor of the event
\* published last at the moment of the write.
C4_PersistIsLastEmitted ==
    \A i \in 1..Len(saved) : saved[i].cursor = saved[i].lastPublished

\* C5: every cursor written to the cursor state file is the cursor of an
\* event the publisher has accepted.
C5_PersistOnlyAccepted ==
    \A i \in 1..Len(saved) :
        \E j \in 1..Len(published) :
            /\ published[j].event.cursor = saved[i].cursor
            /\ published[j].accepted

\* C6: when cursorChan is closed no event is left in incomingLogMessages, and
\* the last write of the cursor state file is the cursor of the event
\* published last.
C6_DrainBeforeClose ==
    /\ cursorChanClosed => (incomingLogMessages = <<>> /\ runPc # "push")
    /\ (writerPc = "done" /\ published # <<>>) =>
            (saved # <<>> /\ Last(saved).cursor = LastPublished)

StaleBuffered(k) == k \in DOMAIN Buffered /\ IsStale(Buffered[k])

\* C7: while the beat is not being stopped, a buffered entry that has gone
\* FlushLogInterval without a new record is published and deleted in the end
\* (or a record of its key has arrived after all).
C7_StaleIsReaped ==
    \A k \in StreamKeys : StaleBuffered(k) ~> (~StaleBuffered(k) \/ done)

\* C8: a non-continuation event for a key with a buffered entry publishes
\* that entry, as merged so far, once, and takes its place without being
\* published; an event is published only out of the buffer.
C8_SupersedePublishesOld ==
    [][ /\ (IngestStep
              /\ ~IsContinuation(Head(incomingLogMessages).message)
              /\ Head(incomingLogMessages).logBufferingType \in DOMAIN Buffered)
            => LET event == Head(incomingLogMessages)
                   key   == event.logBufferingType
               IN  /\ Len(published') = Len(published) + 1
                   /\ SubSeq(published', 1, Len(published)) = published
                   /\ Last(published').event = Buffered[key].logEvent
                   /\ key \in DOMAIN Buffered'
                   /\ Buffered'[key].logEvent = event
                   /\ \A i \in 1..Len(published') :
                         published'[i].event.cursor # event.cursor
        /\ (published' # published)
            => \E k \in DOMAIN Buffered :
                  /\ Last(published').event = Buffered[k].logEvent
                  /\ (k \notin DOMAIN Buffered'
                        \/ Buffered'[k].logEvent # Buffered[k].logEvent)
      ]_vars

\* The entry "A\n B" of X was published by the third record of X, which is
\* buffered and not published.
C8_Witness ==
    /\ Len(published) = 1
    /\ published[1].event.records = << 1, 2 >>
    /\ received = <<>> /\ procPc = "select"
    /\ "X" \in DOMAIN Buffered
    /\ Buffered["X"].logEvent.records = << 3 >>

\* The entry the stale pass has just published is made of a record "A"
\* followed by a record " B".
C9_Case ==
    /\ procPc = "send"
    /\ published # <<>>
    /\ RecordMessages(Last(published).event) = << <<"A">>, <<SP, "B">> >>

\* C9 as stated: the message of that entry is "A\nB".
C9_MergedMessageStripped ==
    C9_Case => Last(published).event.message = << "A", NL, "B" >>

\* C9 as amended: the message of that entry is "A\n B", the second message
\* with its leading space.
C9_MergedMessageKeepsSpace ==
    C9_Case => Last(published).event.message = << "A", NL, SP, "B" >>

C9_Witness == C9_Case /\ Len(published) = 1

\* C10: taking an event of one key from the queue leaves the buffered entry
\* of every other key as it is, present or absent, and publishes no entry of
\* another key.
C10_OtherKeysUntouched ==
    [][ IngestStep =>
          LET key == Head(incomingLogMessages).logBufferingType
          IN  /\ \A y \in StreamKeys \ {key} :
                    /\ (y \in DOMAIN Buffered') = (y \in DOMAIN Buffered)
                    /\ y \in DOMAIN Buffered => Buffered'[y] = Buffered[y]
              /\ published' # published =>
                    Last(published').event.logBufferingType = key
      ]_vars

\* Records of X and Y have arrived interleaved: X's entry holds records 1 and
\* 3, Y's entry holds record 2.
C10_Witness ==
    /\ "X" \in DOMAIN Buffered /\ "Y" \in DOMAIN Buffered
    /\ Buffered["X"].logEvent.records = << 1, 3 >>
    /\ Buffered["Y"].logEvent.records = << 2 >>

RecordsOf(event) == { event.records[j] : j \in 1..Len(event.records) }

\* The records of key k taken from the queue and not part of a published entry.
Unflushed(k) ==
    { r \in 1..Ingested :
        /\ LogBufferingType(journalRead[r]) = k
        /\ \A i \in 1..Len(published) : r \notin RecordsOf(published[i].event) }

\* C11: the map holds one entry per key, stored under the key of its event,
\* and a key has an entry exactly when a record of that key has been taken
\* from the queue and not been published since.
C11_BufferedIffUnflushed ==
    /\ DOMAIN Buffered \subseteq StreamKeys
    /\ \A k \in DOMAIN Buffered :
          /\ Buffered[k].logType = k
          /\ Buffered[k].logEvent.logBufferingType = k
    /\ \A k \in StreamKeys : (k \in DOMAIN Buffered) <=> (Unflushed(k) # {})

\* Y's entry has been published by the stale pass and Y has no entry, while
\* X has one that was not yet published.
C11_Witness ==
    /\ "Y" \notin DOMAIN Buffered
    /\ \E i \in 1..Len(published) : published[i].event.logBufferingType = "Y"
    /\ "X" \in DOMAIN Buffered
    /\ received # <<>>

\* C12: the entries of one key are published in the order in which their
\* first records arrived.
C12_FifoPerKey ==
    \A i, j \in 1..Len(published) :
        (i < j /\ published[i].event.logBufferingType
                    = published[j].event.logBufferingType)
            => published[i].event.records[1] < published[j].event.records[1]

\* Two entries of X have been published, the first by a superseding record
\* and the second by the stale pass.
C12_Witness ==
    /\ Len(published) = 2
    /\ published[1].event.logBufferingType = "X"
    /\ published[2].event.logBufferingType = "X"
    /\ Len(received) = 1

\* C13: every event handed to incomingLogMessages has a non-empty
\* logBufferingType.
C13_StreamKeyNeverEmpty ==
    /\ \A i \in 1..Len(incomingLogMessages) :
          incomingLogMessages[i].logBufferingType # ""
    /\ runPc = "push" => runEvent.logBufferingType # ""

Persisted(c) ==
    \E i \in 1..Len(saved) : saved[i].cursor = c /\ ~saved[i].err

\* C14: while the beat is not being stopped, a cursor the writer holds and
\* has not written is written in the end, unless a later cursor replaces it.
C14_SeenIsPersisted ==
    \A c \in 1..MaxRecords :
        (cursor = c /\ ~Persisted(c)) ~> (Persisted(c) \/ cursor # c \/ done)

\* C15: a send on cursorChan never has to wait: whenever logProcessor is at
\* the send, the receiver is ready for it.
C15_ForwardNeverBlocks ==
    procPc = "send" => (writerPc = "recv" \/ cursorChanClosed)

\* C16: a continuation event (non-empty message that starts with a space or
\* a tab) for a key with a buffered entry appends "\n" and its message,
\* unchanged, to the buffered message, sets the age of the entry to zero and
\* publishes and forwards nothing; an event with an empty message replaces
\* the buffered entry as any other non-continuation does.
C16_ContinuationMerges ==
    [][ IngestStep =>
          LET event == Head(incomingLogMessages)
              key   == event.logBufferingType
              msg   == event.message
          IN  /\ (msg # <<>> /\ msg[1] \in {SP, TAB} /\ key \in DOMAIN Buffered)
                  => /\ key \in DOMAIN Buffered'
                     /\ Buffered'[key].logEvent.message =
                            Buffered[key].logEvent.message \o <<NL>> \o msg
                     /\ Buffered'[key].logEvent.cursor = Buffered[key].logEvent.cursor
                     /\ Buffered'[key].age = 0
                     /\ published' = published
                     /\ received' = received
                     /\ procPc' = "select" /\ sendCursor' = sendCursor
              /\ (msg = <<>> /\ key \in DOMAIN Buffered)
                  => /\ Buffered'[key].logEvent = event
                     /\ Len(published') = Len(published) + 1
                     /\ Last(published').event = Buffered[key].logEvent
      ]_vars

\* The tab line of Y has been merged into Y's entry and nothing was published.
C16_Witness ==
    /\ "Y" \in DOMAIN Buffered
    /\ Buffered["Y"].logEvent.message = << "A", NL, TAB, "C" >>
    /\ published = <<>> /\ received = <<>>

\* C17: the cursor of an entry, buffered or published, is the cursor of its
\* first record, whatever was merged into it.
C17_MarkerOfFirstRecord ==
    /\ \A k \in DOMAIN Buffered :
          Buffered[k].logEvent.cursor = Buffered[k].logEvent.records[1]
    /\ \A i \in 1..Len(published) :
          published[i].event.cursor = published[i].event.records[1]
    /\ \A i \in 1..Len(received) :
          \E j \in 1..Len(published) : published[j].event.records[1] = received[i]

\* An entry of three merged records has been published by the stale pass
\* and its cursor, the first record's, has reached the writer.
C17_Witness ==
    /\ Len(published) = 1
    /\ Len(published[1].event.records) = 3
    /\ received = << 1 >>

\* C18: a write of the cursor state file, failed or not, leaves the writer's
\* cursor as it is and the writer in its loop (or, at shutdown, at its end);
\* every write, also one after a failed write, writes the cursor received
\* last.
C18_FailedWriteKeepsWriter ==
    [][ (saved' # saved) =>
          /\ Len(saved') = Len(saved) + 1
          /\ received # <<>>
          /\ Last(saved').cursor = Last(received)
          /\ cursor' = cursor /\ cursor = Last(received)
          /\ writerPc' = (IF writerPc = "select" THEN "recv" ELSE "done")
      ]_vars

\* A write has failed and a later write has stored a cursor received after it.
C18_Witness ==
    \E i, j \in 1..Len(saved) :
        /\ i < j
        /\ saved[i].err /\ ~saved[j].err
        /\ saved[j].cursor # saved[i].cursor

\* The records that logProcessor has taken from incomingLogMessages.
TakenRecords ==
    UNION ({ RecordsOf(published[i].event) : i \in 1..Len(published) }
             \cup { RecordsOf(Buffered[k].logEvent) : k \in DOMAIN Buffered })

\* C19: incomingLogMessages never holds more than channelSize events; it
\* holds, in journal order, exactly the events of the records read and not
\* yet taken by logProcessor, and an event that finds it full is held by Run
\* until there is room.
C19_QueueBoundedFifo ==
    LET taken == Cardinality(TakenRecords)
        held  == IF runPc = "push" THEN 1 ELSE 0
    IN  /\ Len(incomingLogMessages) <= channelSize
        /\ TakenRecords = 1..taken
        /\ \A i \in 1..Len(incomingLogMessages) :
              /\ taken + i <= Len(journalRead)
              /\ incomingLogMessages[i] =
                    Normalize(journalRead[taken + i], taken + i)
        /\ taken + Len(incomingLogMessages) + held = Len(journalRead)
        /\ runPc = "push" =>
              runEvent = Normalize(journalRead[Len(journalRead)], Len(journalRead))

\* The channel is full and Run is held in its send.
C19_Witness ==
    /\ runPc = "push"
    /\ Len(incomingLogMessages) = channelSize

\* C20: once cursorChan and the client are closed, logProcessor publishes
\* nothing to the client and sends nothing on the channel.
C20_NoEmitAfterClose ==
    /\ \A i \in 1..Len(published) : ~published[i].closed
    /\ procPc # "panic"

====
